---- MODULE Spec2Model ----
(***************************************************************************)
(* The longest-symbol tests of lib/: the macro chain that builds the       *)
(* longest kernel symbol, the two KUnit suites that resolve it through     *)
(* kallsyms (lib/longest_symbol_kunit.c, self-contained, and the suite     *)
(* built on lib/longest_symbol.h), and the kselftest module                *)
(* lib/test_longest_symbol.c.                                              *)
(*                                                                         *)
(* An identifier is a sequence of one-character strings, so that pasting   *)
(* is concatenation and a name's length is Len.  One behaviour is one      *)
(* build of one translation unit followed by one run of its tests.         *)
(***************************************************************************)
EXTENDS Integers, Sequences, FiniteSets

VARIABLES
    unit,           \* the translation unit built and run: "kunit", "header", "kselftest"
    ksym_name_len,  \* KSYM_NAME_LEN of the tree the unit is built in
    config_kprobes, \* CONFIG_KPROBES
    pc,             \* position of the build, then of the running test
    cpp,            \* the macro invocation the preprocessor is rescanning
    sym_name,       \* identifier the first function is defined under
    sym_plus1,      \* identifier the second function is defined under
    assert_ok,      \* outcome of the unit's _Static_assert
    kallsyms,       \* the symbol table kallsyms_lookup_name searches
    test_idx,       \* index of the KUnit case running (1..4), 0 outside the suite
    kp,             \* struct kprobe kp of the running function
    reg_ret,        \* value the first register_kprobe(&kp) returned
    n_register,     \* calls of register_kprobe
    n_unregister,   \* calls of unregister_kprobe
    n_lookup,       \* calls through the kallsyms_lookup_name pointer
    fnptr,          \* longest_sym / longest_sym_plus1 / the address tested in the if
    call_ret,       \* value the last call of a test function returned
    results,        \* outcome of each KUnit case run so far
    check_ret,      \* value check_longest_symbol_exported returned
    total_tests,    \* KSTM_MODULE_GLOBALS counter
    failed_tests    \* KSTM_MODULE_GLOBALS counter

vars == << unit, ksym_name_len, config_kprobes, pc, cpp, sym_name, sym_plus1,
           assert_ok, kallsyms, test_idx, kp, reg_ret, n_register, n_unregister,
           n_lookup, fnptr, call_ret, results, check_ret, total_tests,
           failed_tests >>

---------------------------------------------------------------------------
(* Identifiers of the source text.                                         *)

\* The seed of the chain: g1h2i3j4k5l6m7n.
Seed == <<
    "g", "1", "h", "2", "i", "3", "j", "4", "k", "5", "l", "6", "m", "7", "n" >>

\* The macro names as they appear in the text of the units.
Tok_LONGEST_SYM_NAME == <<
    "L", "O", "N", "G", "E", "S", "T", "_", "S", "Y", "M", "_", "N", "A", "M", "E" >>

Tok_LONGEST_SYM_NAME_PLUS1 == <<
    "L", "O", "N", "G", "E", "S", "T", "_", "S", "Y", "M", "_", "N", "A", "M", "E",
    "_", "P", "L", "U", "S", "1" >>

Tok_LONGEST_SYM_PLUS1 == <<
    "L", "O", "N", "G", "E", "S", "T", "_", "S", "Y", "M", "_", "P", "L", "U", "S",
    "1" >>

Tok_LONGEST_SYMBOL == <<
    "L", "O", "N", "G", "E", "S", "T", "_", "S", "Y", "M", "B", "O", "L" >>

\* The replacement of the object-like macro LONGEST_SYMBOL of
\* lib/test_longest_symbol.c, written out by hand there.
LONGEST_SYMBOL == <<
    "s", "t", "a", "r", "t", "_", "o", "f", "_", "t", "h", "e", "_", "l", "o", "n",
    "g", "e", "s", "t", "_", "s", "y", "m", "b", "o", "l", "_", "p", "o", "s", "s",
    "i", "b", "l", "e", "_", "_", "1", "2", "3", "4", "5", "6", "7", "8", "9", "_",
    "1", "2", "3", "4", "5", "6", "7", "8", "9", "_", "1", "2", "3", "4", "5", "6",
    "7", "8", "9", "_", "1", "2", "3", "4", "5", "6", "7", "8", "9", "_", "1", "2",
    "3", "4", "5", "6", "7", "8", "9", "_", "1", "2", "3", "_", "_", "e", "n", "d",
    "_", "o", "f", "_", "t", "h", "e", "_", "l", "o", "n", "g", "e", "s", "t", "_",
    "s", "y", "m", "b", "o", "l", "_", "p", "o", "s", "s", "i", "b", "l", "e" >>

---------------------------------------------------------------------------
(* The preprocessor.  A function-like macro is replaced by its body with   *)
(* the ## operands pasted unexpanded; the result is rescanned.             *)

\* What rescanning looks at: an invocation macro(arg), or, with macro = "",
\* the finished identifier arg.
Call(m, a) == [macro |-> m, arg |-> a]

Ident(a) == Call("", a)

\* DI with the name pasted once: s##name.
DI_once(name) == Ident(<<"s">> \o name)

\* #define DI(name) s##name##name
DI(name) == Ident(<<"s">> \o name \o name)

\* #define DDI(name) DI(n##name##name)
DDI(name) == Call("DI", <<"n">> \o name \o name)

\* #define DDDI(name) DDI(n##name##name)
DDDI(name) == Call("DDI", <<"n">> \o name \o name)

\* #define DDDDI(name) DDDI(n##name##name)
DDDDI(name) == Call("DDDI", <<"n">> \o name \o name)

\* #define DDDDDI(name) DDDDI(n##name##name)
DDDDDI(name) == Call("DDDDI", <<"n">> \o name \o name)

\* One replacement of the invocation c.
Replace(c) ==
    CASE c.macro = "DI"     -> DI(c.arg)
      [] c.macro = "DDI"    -> DDI(c.arg)
      [] c.macro = "DDDI"   -> DDDI(c.arg)
      [] c.macro = "DDDDI"  -> DDDDI(c.arg)
      [] c.macro = "DDDDDI" -> DDDDDI(c.arg)
      [] OTHER              -> c

\* Replacement repeated until an identifier is left.
RECURSIVE Rescan(_)
Rescan(c) == IF c.macro = "" THEN c.arg ELSE Rescan(Replace(c))

\* #define LONGEST_SYM_NAME  DDDDDI(g1h2i3j4k5l6m7n)
LONGEST_SYM_NAME == Call("DDDDDI", Seed)

\* Full macro expansion of the identifier tok in the text of unit u: the
\* object-like macros the unit defines, any other identifier left as it is.
\* lib/longest_symbol.h defines LONGEST_SYM_PLUS1 and no LONGEST_SYM_NAME_PLUS1;
\* lib/longest_symbol_kunit.c defines LONGEST_SYM_NAME_PLUS1.
RECURSIVE ExpandIdent(_, _)

\* include/linux/compiler_types.h: #define ___PASTE(a,b) a##b
___PASTE(a, b) == a \o b

\* include/linux/compiler_types.h: #define __PASTE(a,b) ___PASTE(a,b)
\* a and b are no ## operands here, so they are fully expanded first.
__PASTE(u, a, b) == ___PASTE(ExpandIdent(u, a), ExpandIdent(u, b))

\* PLUS1 pasting its operand unexpanded, as name##e does.
PLUS1_unexpanded(name) == name \o <<"e">>

\* PLUS1 pasting nothing after the expanded name.
PLUS1_dropped(name) == __PASTE("kunit", name, << >>)

\* lib/longest_symbol_kunit.c: #define PLUS1(name) __PASTE(name, e)
PLUS1(name) == __PASTE("kunit", name, <<"e">>)

\* lib/longest_symbol.h: #define PLUS1(name) name##e
\* name is a ## operand: it is pasted as written, and the pasted identifier
\* is rescanned.
PLUS1_h(name) == ExpandIdent("header", name \o <<"e">>)

ExpandIdent(u, tok) ==
    CASE u \in {"kunit", "header"} /\ tok = Tok_LONGEST_SYM_NAME
            -> Rescan(LONGEST_SYM_NAME)
      [] u = "kunit" /\ tok = Tok_LONGEST_SYM_NAME_PLUS1
            -> PLUS1(Tok_LONGEST_SYM_NAME)
      [] u = "header" /\ tok = Tok_LONGEST_SYM_PLUS1
            -> PLUS1_h(Tok_LONGEST_SYM_NAME)
      [] u = "kselftest" /\ tok = Tok_LONGEST_SYMBOL
            -> LONGEST_SYMBOL
      [] OTHER -> tok

\* include/linux/stringify.h: __stringify(x) is the string of x fully
\* expanded; the characters of the literal, without the terminating NUL.
__stringify(u, tok) == ExpandIdent(u, tok)

\* sizeof of a string literal counts the terminating NUL.
SizeofStr(s) == Len(s) + 1

\* strlen does not.
strlen(s) == Len(s)

---------------------------------------------------------------------------
(* The kernel the units are built in and run on.                           *)

\* KSYM_NAME_LEN of include/linux/kallsyms.h: 128 historically, 512 now.
KsymNameLens == {128, 512}

\* What register_kprobe returns: 0, or a negative errno (-EINVAL, -ENOENT).
RegisterKprobeReturns == {-22, -2, 0}

NULL == "NULL"

\* Addresses of the functions: each function is its own address.
Addr_LONGEST_SYM_NAME == "&LONGEST_SYM_NAME"

Addr_LONGEST_SYM_NAME_PLUS1 == "&LONGEST_SYM_NAME_PLUS1"

Addr_LONGEST_SYMBOL == "&LONGEST_SYMBOL"

Addr_kallsyms_lookup_name == "&kallsyms_lookup_name"

\* Both functions returning the first one's sentinel.
FnCall_same(addr) ==
    IF addr \in {Addr_LONGEST_SYM_NAME, Addr_LONGEST_SYM_NAME_PLUS1} THEN 424242
    ELSE 0

\* noinline int LONGEST_SYM_NAME(void) { return 424242; }
\* noinline int LONGEST_SYM_NAME_PLUS1(void) { return 434343; }
\* The value a call through the non-NULL function pointer addr returns.
FnCall(addr) ==
    IF addr = Addr_LONGEST_SYM_NAME THEN 424242
    ELSE IF addr = Addr_LONGEST_SYM_NAME_PLUS1 THEN 434343
    ELSE 0

\* The global functions a unit defines, each under the identifier its
\* definition expands to.
DefinedSymbols(u, n1, n2) ==
    IF u = "kselftest"
    THEN {[name |-> n1, addr |-> Addr_LONGEST_SYMBOL]}
    ELSE {[name |-> n1, addr |-> Addr_LONGEST_SYM_NAME],
          [name |-> n2, addr |-> Addr_LONGEST_SYM_NAME_PLUS1]}

\* The linker's resolution of a direct call of the identifier tok.
DirectCallAddr(u, defs, tok) ==
    LET id == ExpandIdent(u, tok)
    IN IF \E d \in defs : d.name = id
       THEN (CHOOSE d \in defs : d.name = id).addr
       ELSE NULL

\* The table kallsyms holds: the defined symbols whose name fits a buffer of
\* KSYM_NAME_LEN bytes with its NUL; a longer name is left out.
KallsymsBuild(defs, limit) == {d \in defs : Len(d.name) < limit}

\* kallsyms_lookup_name: the address of the symbol named exactly name, or 0.
kallsyms_lookup_name(table, name) ==
    IF \E d \in table : d.name = name
    THEN (CHOOSE d \in table : d.name = name).addr
    ELSE NULL

\* struct kprobe kp = { .symbol_name = "kallsyms_lookup_name" };
KprobeInit == [symbol_name |-> "kallsyms_lookup_name", addr |-> NULL, registered |-> FALSE]

---------------------------------------------------------------------------
(* The build.                                                              *)

Units == {"kunit", "header", "kselftest"}

Init ==
    /\ unit \in Units
    /\ ksym_name_len \in KsymNameLens
    /\ config_kprobes \in (IF unit = "kselftest" THEN BOOLEAN ELSE {TRUE})
    /\ pc = "cpp"
    /\ cpp = Ident(<< >>)
    /\ sym_name = << >>
    /\ sym_plus1 = << >>
    /\ assert_ok = FALSE
    /\ kallsyms = {}
    /\ test_idx = 0
    /\ kp = KprobeInit
    /\ reg_ret = 0
    /\ n_register = 0
    /\ n_unregister = 0
    /\ n_lookup = 0
    /\ fnptr = NULL
    /\ call_ret = 0
    /\ results = << >>
    /\ check_ret = -1
    /\ total_tests = 0
    /\ failed_tests = 0

runtime == << test_idx, kp, reg_ret, n_register, n_unregister, n_lookup, fnptr,
              call_ret, results, check_ret, total_tests, failed_tests >>

config == << unit, ksym_name_len, config_kprobes >>

\* The definition "int LONGEST_SYM_NAME(void)": the object-like macro is
\* replaced by the invocation DDDDDI(g1h2i3j4k5l6m7n).
ExpandLongestSymName ==
    /\ pc = "cpp"
    /\ unit \in {"kunit", "header"}
    /\ cpp' = LONGEST_SYM_NAME
    /\ pc' = "rescan"
    /\ UNCHANGED << config, sym_name, sym_plus1, assert_ok, kallsyms, runtime >>

\* One step of rescanning: the invocation at hand is replaced by its body.
MacroReplace ==
    /\ pc = "rescan"
    /\ cpp.macro # ""
    /\ cpp' = Replace(cpp)
    /\ UNCHANGED << config, pc, sym_name, sym_plus1, assert_ok, kallsyms, runtime >>

\* Rescanning is over: the first function is defined under the identifier
\* left, the second under what LONGEST_SYM_NAME_PLUS1 expands to in the unit.
DefineFunctions ==
    /\ pc = "rescan"
    /\ cpp.macro = ""
    /\ sym_name' = cpp.arg
    /\ sym_plus1' = ExpandIdent(unit, Tok_LONGEST_SYM_NAME_PLUS1)
    /\ pc' = "static_assert"
    /\ UNCHANGED << config, cpp, assert_ok, kallsyms, runtime >>

\* lib/test_longest_symbol.c: void LONGEST_SYMBOL(void) {}
DefineLongestSymbol ==
    /\ pc = "cpp"
    /\ unit = "kselftest"
    /\ sym_name' = ExpandIdent(unit, Tok_LONGEST_SYMBOL)
    /\ pc' = "static_assert"
    /\ UNCHANGED << config, cpp, sym_plus1, assert_ok, kallsyms, runtime >>

\* _Static_assert(sizeof(__stringify(LONGEST_SYM_NAME)) == KSYM_NAME_LEN, ...)
StaticAssertSym(len) ==
    SizeofStr(__stringify(unit, Tok_LONGEST_SYM_NAME)) = len

\* _Static_assert(KSYM_NAME_LEN == strlen(__stringify(LONGEST_SYMBOL)), ...)
StaticAssertSymbol(len) ==
    len = strlen(__stringify(unit, Tok_LONGEST_SYMBOL))

\* The unit's _Static_assert is evaluated and its outcome recorded.  The
\* functions of the unit are modelled as written whatever the outcome.
StaticAssert ==
    /\ pc = "static_assert"
    /\ assert_ok' = IF unit = "kselftest"
                    THEN StaticAssertSymbol(ksym_name_len)
                    ELSE StaticAssertSym(ksym_name_len)
    /\ pc' = IF unit = "kselftest" THEN "selftest" ELSE "link"
    /\ UNCHANGED << config, cpp, sym_name, sym_plus1, kallsyms, runtime >>

\* The image is linked and its kallsyms table built; the suite starts with
\* its first case.
Link ==
    /\ pc = "link"
    /\ kallsyms' = KallsymsBuild(DefinedSymbols(unit, sym_name, sym_plus1), ksym_name_len)
    /\ test_idx' = 1
    /\ pc' = "case"
    /\ UNCHANGED << config, cpp, sym_name, sym_plus1, assert_ok, kp, reg_ret,
                    n_register, n_unregister, n_lookup, fnptr, call_ret, results,
                    check_ret, total_tests, failed_tests >>

---------------------------------------------------------------------------
(* The KUnit suite "longest-symbol": four cases, run in the order of       *)
(* longest_symbol_test_cases.                                              *)

build == << cpp, sym_name, sym_plus1, assert_ok, kallsyms >>

\* The identifier a case names: LONGEST_SYM_NAME in test_longest_symbol and
\* test_longest_symbol_kallsyms, LONGEST_SYM_NAME_PLUS1 in the plus1 cases.
CaseToken(i) == IF i \in {1, 2} THEN Tok_LONGEST_SYM_NAME ELSE Tok_LONGEST_SYM_NAME_PLUS1

\* The sentinel a case expects: KUNIT_EXPECT_EQ(test, 424242, ...) and
\* KUNIT_EXPECT_EQ(test, 434343, ...).
CaseExpected(i) == IF i \in {1, 2} THEN 424242 ELSE 434343

\* Every lookup asking for __stringify(LONGEST_SYM_NAME_PLUS1).
LookupName_plus1(u, i) == __stringify(u, Tok_LONGEST_SYM_NAME_PLUS1)

\* The string handed to kallsyms_lookup_name:
\* __stringify(LONGEST_SYM_NAME) or __stringify(LONGEST_SYM_NAME_PLUS1).
LookupName(u, i) == __stringify(u, CaseToken(i))

\* Whether the last expectation of test_longest_symbol_plus1_kallsyms is on
\* the pointer itself (lib/longest_symbol_kunit.c: KUNIT_EXPECT_EQ(test, NULL,
\* longest_sym_plus1)) or on the value a call through it returns.
ExpectsNull(u, i) == u = "kunit" /\ i = 4

\* The case at hand ends with outcome o; the next case starts, or the suite
\* is over.
EndCase(o) ==
    /\ results' = Append(results, o)
    /\ test_idx' = IF test_idx < 4 THEN test_idx + 1 ELSE test_idx
    /\ pc' = IF test_idx < 4 THEN "case" ELSE "done"

\* test_longest_symbol and test_longest_symbol_plus1: the function is called
\* directly and its value compared with the sentinel.
DirectCallCase ==
    /\ pc = "case"
    /\ test_idx \in {1, 3}
    /\ LET f == DirectCallAddr(unit, DefinedSymbols(unit, sym_name, sym_plus1),
                               CaseToken(test_idx))
       IN /\ call_ret' = FnCall(f)
          /\ EndCase(IF FnCall(f) = CaseExpected(test_idx) THEN "pass" ELSE "fail")
    /\ UNCHANGED << config, build, kp, reg_ret, n_register, n_unregister, n_lookup,
                    fnptr, check_ret, total_tests, failed_tests >>

\* The *_kallsyms cases: if (register_kprobe(&kp) < 0)
RegisterKprobe ==
    /\ pc = "case"
    /\ test_idx \in {2, 4}
    /\ \E r \in RegisterKprobeReturns :
         /\ reg_ret' = r
         /\ kp' = IF r < 0 THEN KprobeInit
                  ELSE [KprobeInit EXCEPT !.addr = Addr_kallsyms_lookup_name,
                                          !.registered = TRUE]
         /\ pc' = IF r < 0 THEN "not_registered" ELSE "registered"
    /\ n_register' = n_register + 1
    /\ UNCHANGED << config, build, test_idx, n_unregister, n_lookup, fnptr, call_ret,
                    results, check_ret, total_tests, failed_tests >>

\* KUNIT_ASSERT_TRUE(test, register_kprobe(&kp) < 0) registers a second time;
\* if that fails too the assertion passes and KUNIT_FAIL fails the case,
\* otherwise the assertion aborts the case with the kprobe left registered.
RegisterAgain ==
    /\ pc = "not_registered"
    /\ \E r \in RegisterKprobeReturns :
         /\ kp' = IF r < 0 THEN kp
                  ELSE [kp EXCEPT !.addr = Addr_kallsyms_lookup_name,
                                  !.registered = TRUE]
         /\ EndCase(IF r < 0 THEN "noprobe" ELSE "abort")
    /\ n_register' = n_register + 1
    /\ UNCHANGED << config, build, reg_ret, n_unregister, n_lookup, fnptr, call_ret,
                    check_ret, total_tests, failed_tests >>

\* kallsyms_lookup_name = (...)kp.addr; unregister_kprobe(&kp);
UnregisterKprobe ==
    /\ pc = "registered"
    /\ kp' = [kp EXCEPT !.registered = FALSE]
    /\ n_unregister' = n_unregister + 1
    /\ pc' = "lookup"
    /\ UNCHANGED << config, build, test_idx, reg_ret, n_register, n_lookup, fnptr,
                    call_ret, results, check_ret, total_tests, failed_tests >>

\* longest_sym = (void *) kallsyms_lookup_name(__stringify(...));
Lookup ==
    /\ pc = "lookup"
    /\ fnptr' = kallsyms_lookup_name(kallsyms, LookupName(unit, test_idx))
    /\ n_lookup' = n_lookup + 1
    /\ pc' = IF ExpectsNull(unit, test_idx) THEN "expect" ELSE "call"
    /\ UNCHANGED << config, build, test_idx, kp, reg_ret, n_register, n_unregister,
                    call_ret, results, check_ret, total_tests, failed_tests >>

\* longest_sym(): a call through the pointer; through a NULL pointer the
\* kernel oopses and the suite goes no further.
CallPointer ==
    /\ pc = "call"
    /\ IF fnptr = NULL
       THEN /\ pc' = "oops"
            /\ UNCHANGED call_ret
       ELSE /\ pc' = "expect"
            /\ call_ret' = FnCall(fnptr)
    /\ UNCHANGED << config, build, test_idx, kp, reg_ret, n_register, n_unregister,
                    n_lookup, fnptr, results, check_ret, total_tests, failed_tests >>

\* KUNIT_EXPECT_EQ(test, 424242, longest_sym()),
\* KUNIT_EXPECT_EQ(test, 434343, longest_sym_plus1()) or
\* KUNIT_EXPECT_EQ(test, NULL, longest_sym_plus1)
Expect ==
    /\ pc = "expect"
    /\ EndCase(IF ExpectsNull(unit, test_idx)
               THEN (IF fnptr = NULL THEN "pass" ELSE "fail")
               ELSE (IF call_ret = CaseExpected(test_idx) THEN "pass" ELSE "fail"))
    /\ UNCHANGED << config, build, kp, reg_ret, n_register, n_unregister, n_lookup,
                    fnptr, call_ret, check_ret, total_tests, failed_tests >>

---------------------------------------------------------------------------
(* lib/test_longest_symbol.c: selftest and check_longest_symbol_exported.  *)

\* What kallsyms_lookup_name may return for __stringify(LONGEST_SYMBOL):
\* check_longest_symbol_exported branches on it, so it is an input here.
LookupReturns == {NULL, Addr_LONGEST_SYMBOL}

\* selftest: with CONFIG_KPROBES, KSTM_CHECK_ZERO counts the check
\* (total_tests++) and then evaluates check_longest_symbol_exported();
\* without it only a message is printed.
Selftest ==
    /\ pc = "selftest"
    /\ IF config_kprobes
       THEN /\ total_tests' = total_tests + 1
            /\ pc' = "check"
       ELSE /\ pc' = "done"
            /\ UNCHANGED total_tests
    /\ UNCHANGED << config, build, test_idx, kp, reg_ret, n_register, n_unregister,
                    n_lookup, fnptr, call_ret, results, check_ret, failed_tests >>

\* if (register_kprobe(&kp) < 0) { pr_info(...); return 1; }
CheckRegister ==
    /\ pc = "check"
    /\ \E r \in RegisterKprobeReturns :
         /\ reg_ret' = r
         /\ IF r < 0
            THEN /\ check_ret' = 1
                 /\ pc' = "kstm_check"
                 /\ UNCHANGED kp
            ELSE /\ kp' = [kp EXCEPT !.addr = Addr_kallsyms_lookup_name,
                                     !.registered = TRUE]
                 /\ pc' = "check_registered"
                 /\ UNCHANGED check_ret
    /\ n_register' = n_register + 1
    /\ UNCHANGED << config, build, test_idx, n_unregister, n_lookup, fnptr, call_ret,
                    results, total_tests, failed_tests >>

\* kallsyms_lookup_name = (...)kp.addr; unregister_kprobe(&kp);
CheckUnregister ==
    /\ pc = "check_registered"
    /\ kp' = [kp EXCEPT !.registered = FALSE]
    /\ n_unregister' = n_unregister + 1
    /\ pc' = "check_lookup"
    /\ UNCHANGED << config, build, test_idx, reg_ret, n_register, n_lookup, fnptr,
                    call_ret, results, check_ret, total_tests, failed_tests >>

\* The lookup's result ignored: 0 returned whatever the address.
CheckLookup_ignored ==
    /\ pc = "check_lookup"
    /\ \E a \in LookupReturns :
         /\ fnptr' = a
         /\ check_ret' = 0
    /\ n_lookup' = n_lookup + 1
    /\ pc' = "kstm_check"
    /\ UNCHANGED << config, build, test_idx, kp, reg_ret, n_register, n_unregister,
                    call_ret, results, total_tests, failed_tests >>

\* if (kallsyms_lookup_name(__stringify(LONGEST_SYMBOL))) return 0; return 1;
CheckLookup ==
    /\ pc = "check_lookup"
    /\ \E a \in LookupReturns :
         /\ fnptr' = a
         /\ check_ret' = IF a # NULL THEN 0 ELSE 1
    /\ n_lookup' = n_lookup + 1
    /\ pc' = "kstm_check"
    /\ UNCHANGED << config, build, test_idx, kp, reg_ret, n_register, n_unregister,
                    call_ret, results, total_tests, failed_tests >>

\* KSTM_CHECK_ZERO(x): if (x) failed_tests++;
KstmCheckZero ==
    /\ pc = "kstm_check"
    /\ failed_tests' = IF check_ret # 0 THEN failed_tests + 1 ELSE failed_tests
    /\ pc' = "done"
    /\ UNCHANGED << config, build, test_idx, kp, reg_ret, n_register, n_unregister,
                    n_lookup, fnptr, call_ret, results, check_ret, total_tests >>

---------------------------------------------------------------------------

Next ==
    \/ ExpandLongestSymName
    \/ MacroReplace
    \/ DefineFunctions
    \/ DefineLongestSymbol
    \/ StaticAssert
    \/ Link
    \/ DirectCallCase
    \/ RegisterKprobe
    \/ RegisterAgain
    \/ UnregisterKprobe
    \/ Lookup
    \/ CallPointer
    \/ Expect
    \/ Selftest
    \/ CheckRegister
    \/ CheckUnregister
    \/ CheckLookup
    \/ KstmCheckZero

Spec == Init /\ [][Next]_vars

---------------------------------------------------------------------------
(* Properties.                                                             *)

\* The build has defined the unit's functions.
Defined == pc \notin {"cpp", "rescan"}

\* The unit's _Static_assert has been evaluated.
Asserted == pc \notin {"cpp", "rescan", "static_assert"}

\* Replacements done when the invocation at hand is of macro m.
ChainLevel(m) ==
    CASE m = "DDDDDI" -> 0
      [] m = "DDDDI"  -> 1
      [] m = "DDDI"   -> 2
      [] m = "DDI"    -> 3
      [] m = "DI"     -> 4
      [] OTHER        -> 5

\* C1: LONGEST_SYM_NAME expands, one macro level after the other, from the
\* 15-character seed to names of 31, 63, 127, 255 and finally 511 characters
\* (each level takes a name of L characters to one of 2L+1); the identifier
\* defined has 511 characters, its stringification has size 512 with the NUL,
\* and the _Static_assert on it holds exactly when KSYM_NAME_LEN is 512.
C1_LongestSymNameIs511 ==
    unit \in {"kunit", "header"} =>
        /\ pc = "rescan" => Len(cpp.arg) + 1 = 16 * 2 ^ ChainLevel(cpp.macro)
        /\ Defined =>
             /\ Len(sym_name) = 511
             /\ __stringify(unit, Tok_LONGEST_SYM_NAME) = sym_name
             /\ SizeofStr(__stringify(unit, Tok_LONGEST_SYM_NAME)) = 512
        /\ Asserted => (assert_ok <=> ksym_name_len = 512)

C1_Witness ==
    /\ unit = "kunit"
    /\ pc = "link"
    /\ assert_ok
    /\ Len(sym_name) = 511

\* C2: in test_longest_symbol_kallsyms of a unit that builds, once
\* register_kprobe has succeeded, the lookup of the 511-character string
\* __stringify(LONGEST_SYM_NAME) returns the address of LONGEST_SYM_NAME, and
\* the call through it returns 424242, as the direct call does, not 434343.
C2_LookupFindsLongestSym ==
    (unit \in {"kunit", "header"} /\ assert_ok /\ test_idx = 2) =>
        /\ pc # "oops"
        /\ pc \in {"lookup", "call", "expect"} => Len(LookupName(unit, 2)) = 511
        /\ pc \in {"call", "expect"} => fnptr = Addr_LONGEST_SYM_NAME
        /\ pc = "expect" =>
             /\ call_ret = 424242
             /\ call_ret = FnCall(DirectCallAddr(unit,
                                DefinedSymbols(unit, sym_name, sym_plus1),
                                Tok_LONGEST_SYM_NAME))
             /\ call_ret # 434343

C2_Witness ==
    /\ unit = "kunit"
    /\ assert_ok
    /\ test_idx = 2
    /\ pc = "expect"
    /\ reg_ret >= 0
    /\ fnptr = Addr_LONGEST_SYM_NAME
    /\ call_ret = 424242

\* C3: in test_longest_symbol_plus1_kallsyms of lib/longest_symbol_kunit.c,
\* once register_kprobe has succeeded, the lookup of the 512-character string
\* __stringify(LONGEST_SYM_NAME_PLUS1) returns NULL: neither the function
\* defined under that name, which a direct call reaches and which returns
\* 434343, nor the LONGEST_SYM_NAME function, whose name is its first 511
\* characters.
C3_LookupOfPlus1IsNull ==
    (unit = "kunit" /\ assert_ok /\ test_idx = 4 /\ pc = "expect") =>
        LET defs == DefinedSymbols(unit, sym_name, sym_plus1)
            direct == DirectCallAddr(unit, defs, Tok_LONGEST_SYM_NAME_PLUS1)
        IN /\ Len(LookupName(unit, 4)) = 512
           /\ SubSeq(LookupName(unit, 4), 1, 511) = sym_name
           /\ fnptr = NULL
           /\ direct = Addr_LONGEST_SYM_NAME_PLUS1
           /\ FnCall(direct) = 434343
           /\ fnptr \notin {Addr_LONGEST_SYM_NAME, Addr_LONGEST_SYM_NAME_PLUS1}

C3_Witness ==
    /\ unit = "kunit"
    /\ assert_ok
    /\ test_idx = 4
    /\ pc = "expect"
    /\ reg_ret >= 0
    /\ n_lookup >= 1
    /\ fnptr = NULL

\* C4: in lib/longest_symbol_kunit.c LONGEST_SYM_NAME_PLUS1 expands to the
\* 511-character LONGEST_SYM_NAME identifier followed by 'e', 512 characters,
\* another identifier than LONGEST_SYM_NAME: the two definitions do not
\* collide.
C4_Plus1Is512 ==
    (unit = "kunit" /\ Defined) =>
        /\ Len(sym_name) = 511
        /\ Len(sym_plus1) = 512
        /\ sym_plus1 = sym_name \o <<"e">>
        /\ sym_plus1 # sym_name
        /\ \A d1, d2 \in DefinedSymbols(unit, sym_name, sym_plus1) :
             d1.name = d2.name => d1 = d2

C4_Witness ==
    /\ unit = "kunit"
    /\ pc = "static_assert"
    /\ Len(sym_plus1) = 512
    /\ sym_plus1[512] = "e"

\* C5: in lib/longest_symbol.h LONGEST_SYM_PLUS1 expands to a name of 512
\* characters, the 511-character LONGEST_SYM_NAME identifier followed by 'e',
\* and the function declared under LONGEST_SYM_NAME_PLUS1 is that symbol.
C5_HeaderPlus1Is512 ==
    (unit = "header" /\ Defined) =>
        LET plus1 == ExpandIdent(unit, Tok_LONGEST_SYM_PLUS1)
        IN /\ Len(plus1) = 512
           /\ plus1 = sym_name \o <<"e">>
           /\ sym_plus1 = plus1

\* C6: in the suite built on lib/longest_symbol.h, once register_kprobe has
\* succeeded in test_longest_symbol_plus1_kallsyms, the lookup of
\* __stringify(LONGEST_SYM_NAME_PLUS1) returns the non-NULL address of the
\* function defined under LONGEST_SYM_NAME_PLUS1, and the call through it
\* returns 434343, as the direct call does.
C6_HeaderLookupFindsPlus1 ==
    (unit = "header" /\ test_idx = 4) =>
        LET direct == DirectCallAddr(unit, DefinedSymbols(unit, sym_name, sym_plus1),
                                     Tok_LONGEST_SYM_NAME_PLUS1)
        IN /\ pc # "oops"
           /\ pc \in {"call", "expect"} =>
                /\ fnptr # NULL
                /\ fnptr = Addr_LONGEST_SYM_NAME_PLUS1
                /\ fnptr = direct
           /\ pc = "expect" =>
                /\ call_ret = 434343
                /\ call_ret = FnCall(direct)

C6_Witness ==
    /\ unit = "header"
    /\ test_idx = 4
    /\ pc = "expect"
    /\ reg_ret >= 0
    /\ fnptr = Addr_LONGEST_SYM_NAME_PLUS1
    /\ call_ret = 434343

\* C7: in lib/test_longest_symbol.c the stringification of LONGEST_SYMBOL has
\* KSYM_NAME_LEN characters, the NUL not counted, and the _Static_assert on
\* it holds, for KSYM_NAME_LEN 512 and for the historical 128.
C7_LongestSymbolUpToDate ==
    (unit = "kselftest" /\ Asserted) =>
        /\ strlen(__stringify(unit, Tok_LONGEST_SYMBOL)) = ksym_name_len
        /\ assert_ok

\* C8: check_longest_symbol_exported returns 0 exactly when register_kprobe
\* succeeded and the lookup returned a non-zero address, and 1 otherwise; when
\* the registration failed neither unregister_kprobe nor the lookup was
\* called.  With CONFIG_KPROBES selftest counts one check, failed exactly when
\* the value returned is not 0; without it no check is made.
C8_CheckLongestSymbolExported ==
    unit = "kselftest" =>
        /\ (config_kprobes /\ pc \in {"kstm_check", "done"}) =>
             /\ check_ret \in {0, 1}
             /\ check_ret = 0 <=> (reg_ret >= 0 /\ n_lookup = 1 /\ fnptr # NULL)
             /\ reg_ret < 0 => (n_unregister = 0 /\ n_lookup = 0)
             /\ reg_ret >= 0 => (n_unregister = 1 /\ n_lookup = 1)
             /\ n_register = 1
        /\ pc = "done" =>
             IF config_kprobes
             THEN /\ total_tests = 1
                  /\ failed_tests = (IF check_ret # 0 THEN 1 ELSE 0)
             ELSE /\ total_tests = 0
                  /\ failed_tests = 0
                  /\ n_register = 0
                  /\ n_lookup = 0
                  /\ check_ret = -1

C8_Witness ==
    /\ unit = "kselftest"
    /\ config_kprobes
    /\ pc = "done"
    /\ reg_ret >= 0
    /\ fnptr = NULL
    /\ check_ret = 1
    /\ failed_tests = 1

====
